---- MODULE Spec2Model ----
(***************************************************************************)
(* Model of codegen/generator.py: the OpenAPI-to-client code generator.   *)
(*                                                                         *)
(* Python values are modelled as follows.                                  *)
(*   str   a sequence of one-character strings, so that lower(), strip(),  *)
(*         upper(), replace() and the regular expressions are computed    *)
(*         character by character;                                         *)
(*   dict  a function whose domain is the set of keys present ("k" in d   *)
(*         is  k \in DOMAIN d); a dict whose keys are str values in the   *)
(*         code and whose order matters (paths, responses, content) is a  *)
(*         sequence of [key, value] pairs in insertion (document) order;  *)
(*   list  a sequence.                                                     *)
(* Objects shared by reference in Python (an entry of the reference table, *)
(* an inline parameter of the document, a module-level curated parameter) *)
(* are written back to their owner after they are mutated.                 *)
(***************************************************************************)
EXTENDS Integers, Sequences, FiniteSets, TLC

\* ------------------------------------------------------------------ str

UpperChars == <<"A","B","C","D","E","F","G","H","I","J","K","L","M",
                "N","O","P","Q","R","S","T","U","V","W","X","Y","Z">>
LowerChars == <<"a","b","c","d","e","f","g","h","i","j","k","l","m",
                "n","o","p","q","r","s","t","u","v","w","x","y","z">>
Digits == <<"0","1","2","3","4","5","6","7","8","9">>
Whitespace == {" ", "\n", "\r", "\t"}

Range(s) == {s[i] : i \in DOMAIN s}
UpperSet == Range(UpperChars)
LowerSet == Range(LowerChars)
DigitSet == Range(Digits)

\* The lower-case and the upper-case form of each letter
ToLower == [c \in UpperSet |-> LowerChars[CHOOSE i \in DOMAIN UpperChars : UpperChars[i] = c]]
ToUpper == [c \in LowerSet |-> UpperChars[CHOOSE i \in DOMAIN LowerChars : LowerChars[i] = c]]
LowerChar(c) == IF c \in UpperSet THEN ToLower[c] ELSE c
UpperChar(c) == IF c \in LowerSet THEN ToUpper[c] ELSE c

\* str.lower(), str.upper()
lower(s) == [i \in DOMAIN s |-> LowerChar(s[i])]
upper(s) == [i \in DOMAIN s |-> UpperChar(s[i])]

\* str.strip(chars): drop the leading and trailing characters that are in chars
RECURSIVE lstrip(_, _)
lstrip(s, chars) ==
    IF s # <<>> /\ Head(s) \in chars THEN lstrip(Tail(s), chars) ELSE s
RECURSIVE rstrip(_, _)
rstrip(s, chars) ==
    IF s # <<>> /\ s[Len(s)] \in chars THEN rstrip(SubSeq(s, 1, Len(s) - 1), chars) ELSE s
strip_chars(s, chars) == rstrip(lstrip(s, chars), chars)
strip(s) == strip_chars(s, Whitespace)

\* str.replace(a, b) for one-character a and b; re.sub("[...]", "", s)
replace(s, a, b) == [i \in DOMAIN s |-> IF s[i] = a THEN b ELSE s[i]]
remove_chars(s, chars) == SelectSeq(s, LAMBDA c : c \notin chars)

\* str.capitalize(): first character upper-cased, the rest lower-cased
capitalize(s) == [i \in DOMAIN s |-> IF i = 1 THEN UpperChar(s[i]) ELSE LowerChar(s[i])]

\* str.split(sep) for a one-character sep
RECURSIVE split(_, _)
split(s, sep) ==
    IF \A i \in DOMAIN s : s[i] # sep THEN <<s>>
    ELSE LET k == CHOOSE i \in DOMAIN s : s[i] = sep /\ \A j \in 1..(i - 1) : s[j] # sep
         IN <<SubSeq(s, 1, k - 1)>> \o split(SubSeq(s, k + 1, Len(s)), sep)

\* sep.join(parts)
RECURSIVE join(_, _)
join(parts, sep) ==
    IF parts = <<>> THEN <<>>
    ELSE IF Len(parts) = 1 THEN parts[1]
    ELSE parts[1] \o sep \o join(Tail(parts), sep)

\* int(s): the decimal value of a string of digits; None (-1) stands for ValueError
RECURSIVE int_digits(_, _)
int_digits(s, acc) ==
    IF s = <<>> THEN acc
    ELSE int_digits(Tail(s),
                    10 * acc + (CHOOSE d \in 0..9 : Digits[d + 1] = Head(s)))
int(s) ==
    LET t == strip(s)
    IN IF t # <<>> /\ \A i \in DOMAIN t : t[i] \in DigitSet THEN int_digits(t, 0) ELSE -1

\* dict helpers: d[k] = v, and a lookup in a sequence of [key, value] pairs
Put(d, k, v) == (k :> v) @@ d
HasKey(pairs, k) == \E i \in DOMAIN pairs : pairs[i].key = k
Get(pairs, k) == pairs[CHOOSE i \in DOMAIN pairs : pairs[i].key = k].value

\* ------------------------------------------------- string literals of the code

\* "2.0.0"
VERSION ==
    <<"2",".","0",".","0">>
\* "codegen/ws"
WS_DIR ==
    <<"c","o","d","e","g","e","n","/","w","s">>
\* "string"
S_string ==
    <<"s","t","r","i","n","g">>
\* "str"
S_str ==
    <<"s","t","r">>
\* "#/components/parameters/DBBranchNameParam"
REF_DB_BRANCH_NAME_PARAM ==
    <<"#","/","c","o","m","p","o","n","e","n","t","s","/","p","a","r","a","m",
    "e","t","e","r","s","/","D","B","B","r","a","n","c","h","N","a","m","e",
    "P","a","r","a","m">>
\* "#/components/parameters/WorkspaceIDParam"
REF_WORKSPACE_ID_PARAM ==
    <<"#","/","c","o","m","p","o","n","e","n","t","s","/","p","a","r","a","m",
    "e","t","e","r","s","/","W","o","r","k","s","p","a","c","e","I","D","P",
    "a","r","a","m">>
\* "endpoint"
DEFAULT_TEMPLATE_REF ==
    <<"e","n","d","p","o","i","n","t">>
\* "db_name"
S_db_name ==
    <<"d","b","_","n","a","m","e">>
\* "branch_name"
S_branch_name ==
    <<"b","r","a","n","c","h","_","n","a","m","e">>
\* "payload"
S_payload ==
    <<"p","a","y","l","o","a","d">>
\* "path"
S_path ==
    <<"p","a","t","h">>
\* "query"
S_query ==
    <<"q","u","e","r","y">>
\* "responseBody"
S_responseBody ==
    <<"r","e","s","p","o","n","s","e","B","o","d","y">>
\* "str = ""
S_str_eq_quote ==
    <<"s","t","r"," ","="," ","\"">>
\* """
S_quote ==
    <<"\"">>
\* "response_content_type"
S_response_content_type ==
    <<"r","e","s","p","o","n","s","e","_","c","o","n","t","e","n","t","_","t",
    "y","p","e">>
\* "#/components/"
S_components ==
    <<"#","/","c","o","m","p","o","n","e","n","t","s","/">>
\* "/"
S_slash ==
    <<"/">>
\* ".py"
S_dot_py ==
    <<".","p","y">>
\* ".json"
S_dot_json ==
    <<".","j","s","o","n">>
\* ------------------------------------------------------ module-level constants

HTTP_METHODS == <<"get", "put", "post", "delete", "patch">>

\* SPECS: scope -> base_url, in key order (the spec_url is used by the fetch only)
SPECS ==
    << [key |-> <<"c","o","r","e">>, value |-> [base_url |-> <<"h","t","t","p","s",":","/","/","a","p","i",".","x","a","t","a",".","i","o">>]],
       [key |-> <<"w","o","r","k","s","p","a","c","e">>, value |-> [base_url |-> <<"h","t","t","p","s",":","/","/","{","w","o","r","k","s","p","a","c","e","I","d","}",".","{","r","e","g","i","o","n","I","d","}",".","x","a","t","a",".","s","h">>]] >>

TYPE_REPLACEMENTS ==
    << [key |-> <<"i","n","t","e","g","e","r">>, value |-> <<"i","n","t">>],
       [key |-> <<"b","o","o","l","e","a","n">>, value |-> <<"b","o","o","l">>],
       [key |-> <<"a","r","r","a","y">>, value |-> <<"l","i","s","t">>],
       [key |-> <<"o","b","j","e","c","t">>, value |-> <<"d","i","c","t">>],
       [key |-> S_string, value |-> S_str] >>

RESERVED_WORDS == <<<<"f","r","o","m">>>>

OPTIONAL_CURATED_PARAM_DB_NAME ==
    [name |-> S_db_name, in |-> S_path, schema |-> [type |-> S_string],
     type |-> S_str, description |-> <<"T","h","e"," ","n","a","m","e"," ","o","f"," ","t","h","e"," ","d","a","t","a","b","a","s","e"," ","t","o"," ","q","u","e","r","y","."," ","D","e","f","a","u","l","t",":"," ","d","a","t","a","b","a","s","e"," ","n","a","m","e"," ","f","r","o","m"," ","t","h","e"," ","c","l","i","e","n","t",".">>, required |-> FALSE]

OPTIONAL_CURATED_PARAM_BRANCH_NAME ==
    [name |-> S_branch_name, in |-> S_path, schema |-> [type |-> S_string],
     type |-> S_str, description |-> <<"T","h","e"," ","n","a","m","e"," ","o","f"," ","t","h","e"," ","b","r","a","n","c","h"," ","t","o"," ","q","u","e","r","y","."," ","D","e","f","a","u","l","t",":"," ","b","r","a","n","c","h"," ","n","a","m","e"," ","f","r","o","m"," ","t","h","e"," ","c","l","i","e","n","t",".">>, required |-> FALSE]

OPTIONAL_CURATED_PARAM_WORKSPACE_ID ==
    [name |-> <<"w","o","r","k","s","p","a","c","e","_","i","d">>, in |-> S_path, schema |-> [type |-> S_string],
     type |-> S_str, description |-> <<"T","h","e"," ","w","o","r","k","s","p","a","c","e"," ","i","d","e","n","t","i","f","i","e","r","."," ","D","e","f","a","u","l","t",":"," ","w","o","r","k","s","p","a","c","e"," ","I","d"," ","f","r","o","m"," ","t","h","e"," ","c","l","i","e","n","t",".">>, required |-> FALSE]

OPTIONAL_CURATED_PARAM_PAYLOAD ==
    [name |-> S_payload, nameParam |-> S_payload, type |-> <<"d","i","c","t">>,
     description |-> <<"c","o","n","t","e","n","t">>, in |-> <<"r","e","q","u","e","s","t","B","o","d","y">>, required |-> TRUE]

\* The four curated dicts are module globals: get_endpoint_params puts the
\* objects themselves in its lists and writes to them, so they are state.
CuratedInit ==
    [DB_NAME |-> OPTIONAL_CURATED_PARAM_DB_NAME,
     BRANCH_NAME |-> OPTIONAL_CURATED_PARAM_BRANCH_NAME,
     WORKSPACE_ID |-> OPTIONAL_CURATED_PARAM_WORKSPACE_ID,
     PAYLOAD |-> OPTIONAL_CURATED_PARAM_PAYLOAD]

\* --------------------------------------------------------------- helpers

type_replacement(t) ==
    LET orig_type == lower(t)
    IN IF HasKey(TYPE_REPLACEMENTS, orig_type)
       THEN Get(TYPE_REPLACEMENTS, orig_type)
       ELSE orig_type

\* re.findall("[a-zA-Z][^A-Z]*", name): a letter, then the longest run of
\* characters that are not upper-case letters; the scan resumes after the match
RECURSIVE run_not_upper(_)
run_not_upper(s) ==
    IF s = <<>> \/ Head(s) \in UpperSet THEN 0 ELSE 1 + run_not_upper(Tail(s))
RECURSIVE findall_words(_)
findall_words(s) ==
    IF s = <<>> THEN <<>>
    ELSE IF Head(s) \notin UpperSet \cup LowerSet THEN findall_words(Tail(s))
    ELSE LET n == run_not_upper(Tail(s))
         IN <<SubSeq(s, 1, 1 + n)>> \o findall_words(SubSeq(s, n + 2, Len(s)))

get_param_name(name) ==
    LET words == findall_words(name)
        joined == join([i \in DOMAIN words |-> lower(words[i])], <<"_">>)
    IN IF joined \in Range(RESERVED_WORDS) THEN joined \o <<"_">> ELSE joined

get_class_name(name) ==
    LET words == split(lower(name), " ")
    IN join([i \in DOMAIN words |-> capitalize(words[i])], <<>>)

_sanitize_filename(n) == lower(replace(n, " ", "_"))

\* ------------------------------------------------------ get_endpoint_params
\* An intermediate result that the code reads several times is handed on as the
\* parameter of the operator that models the rest of the code.

\* Python's int 0, 1, 2, ... and the bool True (which is the int 1 of type bool)
PyInt(n) == [bool |-> FALSE, val |-> n]
PyTrue == [bool |-> TRUE, val |-> 1]
truthy(v) == v.val # 0

\* The heap get_endpoint_params works on: the reference table, the module-level
\* curated dicts and the parameter dicts of the merged list. A handle names the
\* object a list element is: list elements are references, not copies.
Deref(h, heap) ==
    CASE h.h = "ref" -> heap.references[h.key]
      [] h.h = "doc" -> heap.parameters[h.idx]
      [] h.h = "cur" -> heap.CURATED[h.key]
      [] h.h = "new" -> h.val

Store(h, p, heap) ==
    CASE h.h = "ref" -> [heap EXCEPT !.references[h.key] = p]
      [] h.h = "doc" -> [heap EXCEPT !.parameters[h.idx] = p]
      [] h.h = "cur" -> [heap EXCEPT !.CURATED[h.key] = p]

skel_init ==
    [list |-> <<>>,
     has_path_params |-> 0,
     has_query_params |-> 0,
     has_payload |-> FALSE,
     has_optional_params |-> PyInt(0),
     smart_db_branch_name |-> FALSE,
     smart_workspace_id |-> FALSE,
     response_codes |-> <<>>,
     response_content_types |-> <<>>]

IsRefTo(r, ref) == "$ref" \in DOMAIN r /\ r["$ref"] = ref

\* lines 265-277: what one parameter of the merged list becomes
swap_param(r, i) ==
    IF IsRefTo(r, REF_DB_BRANCH_NAME_PARAM)
    THEN <<[h |-> "cur", key |-> "DB_NAME"], [h |-> "cur", key |-> "BRANCH_NAME"]>>
    ELSE IF IsRefTo(r, REF_WORKSPACE_ID_PARAM)
    THEN <<[h |-> "cur", key |-> "WORKSPACE_ID"]>>
    ELSE <<[h |-> "doc", idx |-> i]>>

\* lines 263-277: the convenience swaps; curated_param_list as handles
RECURSIVE curated_param_list(_, _)
curated_param_list(parameters, i) ==
    IF i > Len(parameters) THEN <<>>
    ELSE swap_param(parameters[i], i) \o curated_param_list(parameters, i + 1)

\* lines 270, 275: the flags the swaps set
swap_flags(skel, parameters) ==
    [skel EXCEPT
        !.smart_db_branch_name =
            \E i \in DOMAIN parameters : IsRefTo(parameters[i], REF_DB_BRANCH_NAME_PARAM),
        !.smart_workspace_id =
            \E i \in DOMAIN parameters : IsRefTo(parameters[i], REF_WORKSPACE_ID_PARAM)]

\* resolve_referenced with a nested reference looked up leniently: a schema
\* $ref that the table does not have gives the type "string" (C8 fails under it)
resolve_referenced_defaulting(hp, p, references) ==
    IF "schema" \notin DOMAIN p
    THEN [raise |-> "KeyError"]
    ELSE IF "$ref" \in DOMAIN p.schema
    THEN IF p.schema["$ref"] \in DOMAIN references
            /\ "type" \in DOMAIN references[p.schema["$ref"]]
         THEN [raise |-> "", hp |-> hp,
               p |-> Put(p, "type", references[p.schema["$ref"]].type)]
         ELSE [raise |-> "", hp |-> hp, p |-> Put(p, "type", S_string)]
    ELSE IF "type" \in DOMAIN p.schema
    THEN [raise |-> "", hp |-> hp, p |-> Put(p, "type", p.schema.type)]
    ELSE [raise |-> "exit(11)"]

\* lines 283-290: p is the table's entry; its type comes from its schema
resolve_referenced(hp, p, references) ==
    IF "schema" \notin DOMAIN p
    THEN [raise |-> "KeyError"]
    ELSE IF "$ref" \in DOMAIN p.schema
    THEN IF p.schema["$ref"] \in DOMAIN references
            /\ "type" \in DOMAIN references[p.schema["$ref"]]
         THEN [raise |-> "", hp |-> hp,
               p |-> Put(p, "type", references[p.schema["$ref"]].type)]
         ELSE [raise |-> "KeyError"]
    ELSE IF "type" \in DOMAIN p.schema
    THEN [raise |-> "", hp |-> hp, p |-> Put(p, "type", p.schema.type)]
    ELSE [raise |-> "exit(11)"]

\* lines 292-298: p is the parameter itself, or the reference is unknown
resolve_inline(hr, r) ==
    IF "name" \in DOMAIN r
    THEN IF "schema" \in DOMAIN r /\ "type" \in DOMAIN r.schema
         THEN [raise |-> "", hp |-> hr, p |-> Put(r, "type", r.schema.type)]
         ELSE [raise |-> "KeyError"]
    ELSE IF "$ref" \in DOMAIN r
    THEN [raise |-> "exit(11)"]
    ELSE [raise |-> "KeyError"]

\* lines 280-298: which object p is and the type name its schema gives; raise
\* is "" when the step completes, else the exit or the exception that ends the run
resolve_param(hr, r, references) ==
    IF "$ref" \in DOMAIN r /\ r["$ref"] \in DOMAIN references
    THEN resolve_referenced([h |-> "ref", key |-> r["$ref"]], references[r["$ref"]],
                            references)
    ELSE resolve_inline(hr, r)

\* lines 285, 287, 294: p["type"] = type_replacement(...)
replace_type(p) == Put(p, "type", type_replacement(p.type))

\* lines 300-303
default_required(p) ==
    IF "required" \notin DOMAIN p THEN Put(p, "required", FALSE) ELSE p
default_description(p) ==
    IF "description" \notin DOMAIN p THEN Put(p, "description", <<>>) ELSE p
\* lines 305-308
strip_name(p) == Put(p, "name", strip(p.name))
name_param(p) == Put(p, "nameParam", get_param_name(p.name))
strip_description(p) == Put(p, "description", strip(p.description))
true_type(p) == Put(p, "trueType", p.type)
\* lines 309-310
none_default(p) ==
    IF ~p.required THEN Put(p, "type", p.type \o <<" ","="," ","N","o","n","e">>) ELSE p

\* lines 285-310: the type, the defaults and the derived fields of p
normalise_param(p) ==
    none_default(true_type(strip_description(name_param(strip_name(
        default_description(default_required(replace_type(p))))))))

\* lines 312-319: append p and count it
count_param(skel, hp, p) ==
    [skel EXCEPT
        !.list = Append(@, hp),
        !.has_path_params = IF p["in"] = S_path THEN @ + 1 ELSE @,
        !.has_query_params = IF p["in"] = S_query THEN @ + 1 ELSE @,
        !.has_optional_params = IF ~p.required THEN PyInt(@.val + 1) ELSE @]

\* lines 300-319 for the object hp, whose value with its type set is p
add_param(skel, heap, hp, p) ==
    [raise |-> "", skel |-> count_param(skel, hp, p), heap |-> Store(hp, p, heap)]

\* curate_param with the failing parameter skipped instead of ending the run
\* (C6 fails under it)
curate_param_skipping(skel, heap, res) ==
    IF res.raise # "" THEN [raise |-> "", skel |-> skel, heap |-> heap]
    ELSE IF "name" \notin DOMAIN res.p \/ "in" \notin DOMAIN res.p
    THEN [raise |-> "KeyError", skel |-> skel, heap |-> heap]
    ELSE add_param(skel, heap, res.hp, normalise_param(res.p))

\* lines 280-319: one iteration of the loop, res being what resolve_param gave
curate_param(skel, heap, res) ==
    IF res.raise # "" THEN [raise |-> res.raise, skel |-> skel, heap |-> heap]
    ELSE IF "name" \notin DOMAIN res.p \/ "in" \notin DOMAIN res.p
    THEN [raise |-> "KeyError", skel |-> skel, heap |-> heap]
    ELSE add_param(skel, heap, res.hp, normalise_param(res.p))

\* lines 279-319: the loop over curated_param_list from element i on, st being
\* the state ([raise, skel, heap]) the iterations before left
RECURSIVE resolve_params(_, _, _)
resolve_params(curated, i, st) ==
    IF i > Len(curated) \/ st.raise # "" THEN st
    ELSE resolve_params(curated, i + 1,
            curate_param(st.skel, st.heap,
                resolve_param(curated[i], Deref(curated[i], st.heap),
                              st.heap.references)))

\* lines 261-319
curate_parameters(parameters, heap) ==
    IF Len(parameters) > 0
    THEN resolve_params(curated_param_list(parameters, 1), 1,
            [raise |-> "", skel |-> swap_flags(skel_init, parameters), heap |-> heap])
    ELSE [raise |-> "", skel |-> skel_init, heap |-> heap]

\* lines 321-323: the synthetic payload parameter
append_payload(skel, endpoint) ==
    IF "requestBody" \in DOMAIN endpoint
    THEN [skel EXCEPT !.list = Append(@, [h |-> "cur", key |-> "PAYLOAD"]),
                      !.has_payload = TRUE]
    ELSE skel

\* lines 328-332: the description of one response
response_description(response, references) ==
    IF "description" \in DOMAIN response
    THEN [raise |-> "", desc |-> strip(response.description)]
    ELSE IF "$ref" \in DOMAIN response /\ response["$ref"] \in DOMAIN references
    THEN IF "description" \in DOMAIN references[response["$ref"]]
         THEN [raise |-> "", desc |-> strip(references[response["$ref"]].description)]
         ELSE [raise |-> "KeyError"]
    ELSE [raise |-> "", desc |-> <<>>]

\* lines 343-344: the entries of a success response's content types; content
\* is the dict's keys in document order (its values are not read)
content_type_entries(code, content) ==
    [i \in DOMAIN content |-> [content_type |-> content[i], code |-> code]]

\* lines 340-344: the content types of one response, when it is a success
success_content_types(code, response, int_code) ==
    IF int_code = -1 THEN [raise |-> "ValueError"]
    ELSE IF int_code >= 200 /\ int_code <= 299
    THEN [raise |-> "", cts |-> content_type_entries(code, response.content)]
    ELSE [raise |-> "", cts |-> <<>>]

response_content_types(code, response) ==
    IF "content" \in DOMAIN response
    THEN success_content_types(code, response, int(code))
    ELSE [raise |-> "", cts |-> <<>>]

\* lines 333-344 for one response, d being its description and c its content types
add_response(skel, code, d, c) ==
    IF d.raise # "" THEN [raise |-> d.raise, skel |-> skel]
    ELSE IF c.raise # ""
    THEN [raise |-> c.raise,
          skel |-> [skel EXCEPT !.response_codes =
                       Append(@, [code |-> code, description |-> d.desc])]]
    ELSE [raise |-> "",
          skel |-> [skel EXCEPT
                      !.response_codes = Append(@, [code |-> code, description |-> d.desc]),
                      !.response_content_types = @ \o c.cts]]

\* lines 326-344: the loop over endpoint["responses"] from response i on, st
\* being the state ([raise, skel]) the iterations before left
RECURSIVE collect_responses(_, _, _, _)
collect_responses(responses, i, st, references) ==
    IF i > Len(responses) \/ st.raise # "" THEN st
    ELSE collect_responses(responses, i + 1,
            add_response(st.skel, responses[i].key,
                response_description(responses[i].value, references),
                response_content_types(responses[i].key, responses[i].value)),
            references)

\* lines 348-358: the synthetic parameter, ct being its default
content_type_descriptor(ct) ==
    [name |-> S_response_content_type,
     nameParam |-> S_response_content_type,
     type |-> S_str_eq_quote \o ct \o S_quote,
     trueType |-> S_str,
     description |-> <<"C","o","n","t","e","n","t"," ","t","y","p","e"," ","o","f"," ","t","h","e"," ","r","e","s","p","o","n","s","e","."," ","D","e","f","a","u","l","t",":"," ">> \o ct,
     in |-> S_responseBody,
     required |-> FALSE]

\* lines 346-359: the synthetic response_content_type parameter
content_type_param(skel) ==
    IF Len(skel.response_content_types) > 1
    THEN [skel EXCEPT
            !.has_optional_params = PyTrue,
            !.list = Append(@,
                [h |-> "new",
                 val |-> content_type_descriptor(
                            strip(lower(skel.response_content_types[1].content_type)))])]
    ELSE skel

\* lines 362-366: keep the first parameter of each lower-cased name
RECURSIVE remove_duplicates(_, _)
remove_duplicates(list, tmp) ==
    IF list = <<>> THEN tmp
    ELSE IF \E j \in DOMAIN tmp : lower(tmp[j].name) = lower(Head(list).name)
    THEN remove_duplicates(Tail(list), tmp)
    ELSE remove_duplicates(Tail(list), Append(tmp, Head(list)))

\* reorder without lines 369-370: the list stays in the order the
\* deduplication left (C1 fails under it)
reorder_skipped(skel) == skel

\* lines 369-370: required parameters first, then the optional ones
reorder(skel) ==
    IF truthy(skel.has_optional_params)
    THEN [skel EXCEPT !.list = SelectSeq(@, LAMBDA e : e.required)
                               \o SelectSeq(@, LAMBDA e : ~e.required)]
    ELSE skel

\* lines 361-371: the list's objects, without duplicates and reordered
finish_list(skel, heap) ==
    reorder([skel EXCEPT !.list =
                remove_duplicates([i \in DOMAIN @ |-> Deref(@[i], heap)], <<>>)])

\* What the caller can observe after the call: the skeleton returned (when
\* raise is ""), and the objects the call wrote to
returned(raise, skel, heap) ==
    [raise |-> raise,
     skel |-> skel,
     references |-> heap.references,
     CURATED |-> heap.CURATED,
     parameters |-> heap.parameters]

\* lines 345-371, c being what the response loop left
after_responses(c, heap) ==
    IF c.raise # "" THEN returned(c.raise, skel_init, heap)
    ELSE returned("", finish_list(content_type_param(c.skel), heap), heap)

\* lines 321-371, a being what the parameter loop left
after_parameters(a, endpoint) ==
    IF a.raise # "" THEN returned(a.raise, skel_init, a.heap)
    ELSE IF "responses" \in DOMAIN endpoint
    THEN after_responses(
            collect_responses(endpoint.responses, 1,
                [raise |-> "", skel |-> append_payload(a.skel, endpoint)],
                a.heap.references),
            a.heap)
    ELSE after_responses([raise |-> "", skel |-> append_payload(a.skel, endpoint)],
                         a.heap)

\* lines 249-371
get_endpoint_params(path, endpoint, parameters, references, CURATED) ==
    after_parameters(
        curate_parameters(parameters,
            [references |-> references, CURATED |-> CURATED, parameters |-> parameters]),
        endpoint)

\* ------------------------------------------------------------ the run's steps

\* The characters of a method name (a key of a path item, also used as text)
chars(k) ==
    CASE k = "get" -> <<"g","e","t">>
      [] k = "put" -> <<"p","u","t">>
      [] k = "post" -> <<"p","o","s","t">>
      [] k = "delete" -> <<"d","e","l","e","t","e">>
      [] k = "patch" -> <<"p","a","t","c","h">>

\* codegen/api-rename-mapping.json: namespace -> operation id -> {name, template}
API_RENAMING ==
    << [key |-> <<"r","e","c","o","r","d","s">>,
        value |-> << [key |-> <<"q","u","e","r","y","T","a","b","l","e">>,
                      value |-> [name |-> <<"q","u","e","r","y">>, template |-> <<"e","n","d","p","o","i","n","t","_","c","u","s","t","o","m">>]] >>] >>

\* lines 165-172: the counting loops, over path i on and method j on
RECURSIVE count_operations(_, _, _, _)
count_operations(paths, i, j, n_spaces) ==
    IF i > Len(paths) THEN [raise |-> "", n_spaces |-> n_spaces]
    ELSE IF j > Len(HTTP_METHODS) THEN count_operations(paths, i + 1, 1, n_spaces)
    ELSE LET p == paths[i].value
             method == HTTP_METHODS[j]
         IN IF method \in DOMAIN p
            THEN LET tag == p[method].tags[1]
                 IN IF tag \in DOMAIN n_spaces
                    THEN count_operations(paths, i, j + 1,
                                          [n_spaces EXCEPT ![tag] = @ + 1])
                    ELSE [raise |-> "KeyError", n_spaces |-> n_spaces]
            ELSE count_operations(paths, i, j + 1, n_spaces)

\* line 433, the pruning left out: every declared tag is a namespace
\* (C4 fails under it)
prune_nothing(spec) == [raise |-> "", namespaces |-> spec.tags]

\* lines 165-177
prune_empty_namespaces(spec) ==
    LET zero == [name \in {spec.tags[i].name : i \in DOMAIN spec.tags} |-> 0]
        counted == count_operations(spec.paths, 1, 1, zero)
    IN IF counted.raise # "" THEN [raise |-> counted.raise, namespaces |-> <<>>]
       ELSE [raise |-> "",
             namespaces |-> SelectSeq(spec.tags, LAMBDA n : counted.n_spaces[n.name] > 0)]

\* lines 379-383: one component, with its type normalised
resolve_component(component) ==
    IF "type" \in DOMAIN component
    THEN Put(component, "type", type_replacement(component.type))
    ELSE component

\* "#/components/{k}/{name}" of entry n of group g
component_path(components, g, n) ==
    S_components \o components[g].key \o S_slash \o components[g].value[n].key

component_entries(components) ==
    UNION {{<<g, n>> : n \in DOMAIN components[g].value} : g \in DOMAIN components}

\* lines 374-384: the table; a path met twice keeps the later component
resolve_references(spec) ==
    LET components == spec.components
        entries == component_entries(components)
        at(ref) == {e \in entries : component_path(components, e[1], e[2]) = ref}
        last(ref) == CHOOSE x \in at(ref) :
                        \A y \in at(ref) : y[1] < x[1] \/ (y[1] = x[1] /\ y[2] <= x[2])
    IN [ref \in {component_path(components, e[1], e[2]) : e \in entries} |->
          resolve_component(components[last(ref)[1]].value[last(ref)[2]].value)]

\* The table's entries are the document's component objects themselves: what is
\* written to an entry shows in spec["components"]
aliased_components(components, references) ==
    [g \in DOMAIN components |->
        [components[g] EXCEPT !.value =
            [n \in DOMAIN components[g].value |->
                [components[g].value[n] EXCEPT !.value =
                    references[component_path(components, g, n)]]]]]

\* lines 395-405: the digest is modelled by what it is a digest of; sort_keys
\* makes the serialisation independent of the order of the dicts' keys
sorted_keys(pairs) == [k \in {pairs[i].key : i \in DOMAIN pairs} |-> Get(pairs, k)]
sorted_endpoint(endpoint) ==
    IF "responses" \in DOMAIN endpoint
    THEN [endpoint EXCEPT !.responses = sorted_keys(@)]
    ELSE endpoint
sorted_path(p) ==
    [k \in DOMAIN p |-> IF k \in Range(HTTP_METHODS) THEN sorted_endpoint(p[k]) ELSE p[k]]
sorted_paths(paths) ==
    sorted_keys([i \in DOMAIN paths |->
                    [key |-> paths[i].key, value |-> sorted_path(paths[i].value)]])
sorted_components(components) ==
    sorted_keys([g \in DOMAIN components |->
                    [key |-> components[g].key, value |-> sorted_keys(components[g].value)]])
checksum(dictionary) ==
    [md5 |-> [dictionary EXCEPT !.paths = sorted_paths(@),
                                !.components = sorted_components(@)]]

\* xata.helpers.to_rfc339: the timestamp text of a clock reading
to_rfc339(now) == [rfc3339 |-> now]

\* mako's Template(filename).render(**vars): the output is a function of the
\* template and the variables
render(template, vars) == [template |-> template, vars |-> vars]

\* lines 127-147: the class file of one namespace, opened with "w+"
generate_namespace(namespace, scope, spec_version, spec_base_url, files) ==
    LET class_desc == IF "description" \in DOMAIN namespace
                      THEN namespace.description
                      ELSE namespace["x-displayName"]
        vars == [class_name |-> get_class_name(namespace["x-displayName"]),
                 class_description |-> strip(class_desc),
                 spec_scope |-> scope,
                 spec_version |-> spec_version]
        out == render(<<"n","a","m","e","s","p","a","c","e">>, vars)
        file_name == WS_DIR \o S_slash \o _sanitize_filename(namespace.name) \o S_dot_py
    IN Put(files, file_name, <<out>>)

\* lines 184-187: the merged parameter list, path-level parameters first
merged_parameters(endpoint, parameters) ==
    IF "parameters" \in DOMAIN endpoint
    THEN parameters \o endpoint.parameters
    ELSE parameters

\* lines 188-246, after get_endpoint_params has returned endpoint_params: the
\* manifest entry and the rendered fragment
emit_endpoint(path, method, endpoint, endpoint_params) ==
    LET desc == IF "description" \in DOMAIN endpoint
                THEN strip(endpoint.description)
                ELSE strip(endpoint.summary)
        namespace == _sanitize_filename(endpoint.tags[1])
        operation_id0 == strip(endpoint.operationId)
        renamed == HasKey(API_RENAMING, namespace)
                   /\ HasKey(Get(API_RENAMING, namespace), operation_id0)
        template_ref == IF renamed
                        THEN Get(Get(API_RENAMING, namespace), operation_id0).template
                        ELSE DEFAULT_TEMPLATE_REF
        operation_id == IF renamed
                        THEN Get(Get(API_RENAMING, namespace), operation_id0).name
                        ELSE operation_id0
        status == IF "x-experimental" \in DOMAIN endpoint THEN <<"e","x","p","e","r","i","m","e","n","t","a","l">> ELSE <<"G","A">>
        slug == remove_chars(strip(path), {"{", "}"}) \o <<"#">>
                    \o replace(lower(endpoint.summary), " ", "-")
        vars == [template |-> template_ref,
                 operation_id |-> operation_id,
                 description |-> strip_chars(desc, {"\n", "\r"}),
                 http_method |-> upper(chars(method)),
                 path |-> path,
                 params |-> endpoint_params,
                 status |-> status,
                 docs_url |-> <<"h","t","t","p","s",":","/","/","x","a","t","a",".","i","o","/","d","o","c","s","/","a","p","i","-","r","e","f","e","r","e","n","c","e">> \o slug]
        entry == [namespace |-> endpoint.tags[1],
                  name |-> strip(endpoint.summary),
                  operation_id |-> endpoint.operationId,
                  name_python |-> operation_id,
                  description |-> desc,
                  method |-> vars.http_method,
                  url_path |-> path,
                  responses |-> endpoint_params.response_codes,
                  status |-> status,
                  parameters |->
                      [i \in DOMAIN endpoint_params.list |->
                          [name |-> endpoint_params.list[i].name,
                           description |-> endpoint_params.list[i].description,
                           in |-> endpoint_params.list[i]["in"],
                           required |-> endpoint_params.list[i].required]]]
    IN [entry |-> entry, out |-> render(vars.template, vars)]

\* append_endpoint with the file opened with "w": the file is left with the
\* last fragment only (C11 fails under it)
append_endpoint_truncating(files, endpoint, out) ==
    Put(files, WS_DIR \o S_slash \o _sanitize_filename(endpoint.tags[1]) \o S_dot_py, <<out>>)

\* lines 158-161: the fragment appended to the file of the first tag ("a+"
\* creates the file when it does not exist)
append_endpoint(files, endpoint, out) ==
    LET file_name == WS_DIR \o S_slash \o _sanitize_filename(endpoint.tags[1]) \o S_dot_py
    IN IF file_name \in DOMAIN files
       THEN [files EXCEPT ![file_name] = Append(@, out)]
       ELSE Put(files, file_name, <<out>>)

\* ------------------------------------------------------------- the documents
\* The documents the fetch may return: OpenAPI documents over one set of
\* components, in which a parameter is a Reference Object ({"$ref": ...}) or a
\* Parameter Object with name, in and schema.

ref_to(group, name) == S_components \o group \o S_slash \o name

Components ==
    << [key |-> <<"p","a","r","a","m","e","t","e","r","s">>,
        value |->
          << [key |-> <<"K","e","y","N","a","m","e","P","a","r","a","m">>,
              value |-> [name |-> <<" ","K","e","y","_","N","a","m","e">>, in |-> S_path,
                         schema |-> [type |-> <<"s","t","r","i","n","g">>],
                         description |-> <<" ","A","P","I"," ","K","e","y"," ","n","a","m","e"," ">>]],
             [key |-> <<"P","a","g","e","P","a","r","a","m">>,
              value |-> [name |-> <<"p","a","g","e">>, in |-> S_query, required |-> TRUE,
                         schema |-> ("$ref" :> ref_to(<<"s","c","h","e","m","a","s">>, <<"P","a","g","e","S","i","z","e">>))]],
             [key |-> <<"N","o","T","y","p","e","P","a","r","a","m">>,
              value |-> [name |-> <<"x">>, in |-> S_query, schema |-> <<>>]],
             [key |-> <<"D","a","n","g","l","i","n","g","P","a","r","a","m">>,
              value |-> [name |-> <<"d">>, in |-> S_query,
                         schema |-> ("$ref" :> ref_to(<<"s","c","h","e","m","a","s">>, <<"G","o","n","e">>))]] >>],
       [key |-> <<"s","c","h","e","m","a","s">>,
        value |-> << [key |-> <<"P","a","g","e","S","i","z","e">>, value |-> [type |-> <<"I","n","t","e","g","e","r">>]] >>],
       [key |-> <<"r","e","s","p","o","n","s","e","s">>,
        value |-> << [key |-> <<"C","r","e","a","t","e","d">>,
                      value |-> [description |-> <<" ","C","r","e","a","t","e","d"," ">>]] >>] >>

ParamRef(name) == ("$ref" :> ref_to(<<"p","a","r","a","m","e","t","e","r","s">>, name))

InlineKeyName ==
    [name |-> <<"k","e","y","_","n","a","m","e">>, in |-> S_query, required |-> TRUE,
     schema |-> [type |-> <<"s","t","r","i","n","g">>], description |-> <<" ","A","P","I"," ","K","e","y"," ","n","a","m","e">>]
InlinePayload ==
    [name |-> <<"P","a","y","l","o","a","d">>, in |-> S_query, schema |-> [type |-> <<"S","t","r","i","n","g">>]]
InlineContentType ==
    [name |-> <<"r","e","s","p","o","n","s","e","_","c","o","n","t","e","n","t","_","t","y","p","e">>, in |-> <<"h","e","a","d","e","r">>, required |-> TRUE,
     schema |-> [type |-> <<"s","t","r","i","n","g">>]]
InlineDbName ==
    [name |-> <<"D","B","_","N","a","m","e"," ">>, in |-> S_query, required |-> TRUE,
     schema |-> [type |-> <<"i","n","t","e","g","e","r">>]]
InlinePathKeyName ==
    [name |-> <<"k","e","y","_","n","a","m","e">>, in |-> S_path, required |-> TRUE,
     schema |-> [type |-> <<"s","t","r","i","n","g">>], description |-> <<"A","P","I"," ","K","e","y"," ","n","a","m","e">>]

\* The parameters an operation of the curator's inputs is made of
ParamPool ==
    { InlineKeyName, InlinePayload, InlineContentType, InlineDbName,
      ParamRef(<<"K","e","y","N","a","m","e","P","a","r","a","m">>), ParamRef(<<"P","a","g","e","P","a","r","a","m">>),
      ParamRef(<<"D","B","B","r","a","n","c","h","N","a","m","e","P","a","r","a","m">>), ParamRef(<<"W","o","r","k","s","p","a","c","e","I","D","P","a","r","a","m">>),
      ParamRef(<<"M","i","s","s","i","n","g","P","a","r","a","m">>), ParamRef(<<"N","o","T","y","p","e","P","a","r","a","m">>),
      ParamRef(<<"D","a","n","g","l","i","n","g","P","a","r","a","m">>) }

CT_json == <<"a","p","p","l","i","c","a","t","i","o","n","/","j","s","o","n">>
CT_csv == <<" ","T","e","x","t","/","C","S","V">>

R200json ==
    [key |-> <<"2","0","0">>, value |-> [description |-> <<" ","O","K"," ">>, content |-> <<CT_json>>]]
R200both ==
    [key |-> <<"2","0","0">>, value |-> [description |-> <<"O","K">>, content |-> <<CT_csv, CT_json>>]]
R201json ==
    [key |-> <<"2","0","1">>,
     value |-> ("$ref" :> ref_to(<<"r","e","s","p","o","n","s","e","s">>, <<"C","r","e","a","t","e","d">>)) @@ [content |-> <<CT_json>>]]
R204 ==
    [key |-> <<"2","0","4">>, value |-> <<>>]
R404csv ==
    [key |-> <<"4","0","4">>,
     value |-> ("$ref" :> ref_to(<<"r","e","s","p","o","n","s","e","s">>, <<"G","o","n","e">>)) @@ [content |-> <<CT_csv>>]]
R5XX ==
    [key |-> <<"5","X","X">>, value |-> [description |-> <<"U","n","e","x","p","e","c","t","e","d"," ","E","r","r","o","r">>, content |-> <<CT_json>>]]

ResponsePool == {R200json, R200both, R201json, R204, R404csv, R5XX}

MaxParams == 2
MaxResponses == 2
MaxPaths == 2

SeqsUpTo(S, n) == UNION {[1..k -> S] : k \in 0..n}
DistinctKeys(pairs) ==
    \A i, j \in DOMAIN pairs : pairs[i].key = pairs[j].key => i = j

ParamLists == SeqsUpTo(ParamPool, MaxParams)
ResponseDicts == {r \in SeqsUpTo(ResponsePool, MaxResponses) : DistinctKeys(r)}

Operation(tags, operationId, summary) ==
    [tags |-> tags, operationId |-> operationId, summary |-> summary]

\* The operations the curator is applied to
CuratorEndpoints ==
    LET base == Operation(<<<<"U","s","e","r","s">>>>, <<"o","p">>, <<"O","p">>)
        bodies == {base, Put(base, "requestBody", [required |-> TRUE])}
    IN bodies \cup {Put(e, "responses", r) : e \in bodies, r \in ResponseDicts}

\* The tags and path items the fetched documents are made of
Tag(name, displayName) == [name |-> name] @@ ("x-displayName" :> displayName)
TagUsers == Put(Tag(<<"U","s","e","r","s">>, <<"U","s","e","r","s">>), "description", <<" ","U","s","e","r"," ","k","e","y","s","."," ">>)
TagRecords == Tag(<<"R","e","c","o","r","d","s">>, <<"R","e","c","o","r","d","s"," ","a","p","i">>)
TagSearch == Tag(<<"S","e","a","r","c","h">>, <<"S","e","a","r","c","h"," ","a","n","d"," ","f","i","l","t","e","r">>)

OpGetKeys ==
    Put(Operation(<<<<"U","s","e","r","s">>>>, <<"g","e","t","U","s","e","r","A","P","I","K","e","y","s">>, <<"G","e","t"," ","k","e","y","s">>), "responses", <<R200json>>)
OpDeleteKey ==
    Put(Operation(<<<<"U","s","e","r","s">>>>, <<"d","e","l","e","t","e","U","s","e","r","A","P","I","K","e","y">>, <<"D","e","l","e","t","e"," ","k","e","y">>), "responses", <<R204>>)
OpCreateKey ==
    [tags |-> <<<<"U","s","e","r","s">>>>, operationId |-> <<" ","c","r","e","a","t","e","U","s","e","r","A","P","I","K","e","y">>, summary |-> <<"C","r","e","a","t","e"," ","k","e","y">>,
     description |-> <<" ","C","r","e","a","t","e"," ","a","n","d"," ","r","e","t","u","r","n"," ","n","e","w"," ","A","P","I"," ","k","e","y","\n">>,
     requestBody |-> [required |-> TRUE],
     responses |-> <<R201json>>]
OpQuery ==
    [tags |-> <<<<"R","e","c","o","r","d","s">>, <<"U","s","e","r","s">>>>, operationId |-> <<"q","u","e","r","y","T","a","b","l","e">>,
     summary |-> <<"Q","u","e","r","y"," ","t","a","b","l","e">>,
     parameters |-> <<ParamRef(<<"P","a","g","e","P","a","r","a","m">>), ParamRef(<<"K","e","y","N","a","m","e","P","a","r","a","m">>),
                      ParamRef(<<"D","B","B","r","a","n","c","h","N","a","m","e","P","a","r","a","m">>)>>,
     responses |-> <<R200both, R404csv>>]
     @@ ("x-experimental" :> TRUE)
OpMissingRef ==
    [tags |-> <<<<"R","e","c","o","r","d","s">>>>, operationId |-> <<"g","e","t","R","e","c","o","r","d">>, summary |-> <<"G","e","t"," ","r","e","c","o","r","d">>,
     parameters |-> <<ParamRef(<<"P","a","g","e","P","a","r","a","m">>), ParamRef(<<"M","i","s","s","i","n","g","P","a","r","a","m">>)>>,
     responses |-> <<R200json>>]
OpDangling ==
    [tags |-> <<<<"U","s","e","r","s">>>>, operationId |-> <<"g","e","t","U","s","e","r">>, summary |-> <<"G","e","t"," ","u","s","e","r">>,
     parameters |-> <<ParamRef(<<"D","a","n","g","l","i","n","g","P","a","r","a","m">>)>>]

PathKeys == [key |-> <<"/","u","s","e","r","/","k","e","y","s">>, value |-> [get |-> OpGetKeys]]
PathKey ==
    [key |-> <<"/","u","s","e","r","/","k","e","y","s","/","{","k","e","y","_","n","a","m","e","}">>,
     value |-> [parameters |-> <<InlinePathKeyName>>,
                post |-> OpCreateKey, delete |-> OpDeleteKey]]
PathQuery ==
    [key |-> <<"/","d","b","/","{","d","b","_","b","r","a","n","c","h","_","n","a","m","e","}","/","q","u","e","r","y">>,
     value |-> [summary |-> <<"Q","u","e","r","y">>, patch |-> OpQuery]]
PathMissingRef ==
    [key |-> <<"/","d","b","/","r","e","c","o","r","d">>, value |-> [put |-> OpMissingRef, patch |-> OpGetKeys]]
PathDangling == [key |-> <<"/","u","s","e","r">>, value |-> [delete |-> OpDangling]]

PathPool == {PathKeys, PathKey, PathQuery, PathMissingRef, PathDangling}
TagLists ==
    { <<TagUsers, TagRecords, TagSearch>>, <<TagRecords, TagUsers>>, <<TagSearch, TagUsers>> }

\* What fetch_openapi_specs may return with status 200
Documents ==
    { [info |-> [version |-> <<"1",".","0">>], tags |-> tags, paths |-> paths,
       components |-> Components] :
        tags \in TagLists,
        paths \in {p \in SeqsUpTo(PathPool, MaxPaths) : DistinctKeys(p)} }

\* What datetime.datetime.now() may read
Clock == {<<"2","0","2","3","-","0","1","-","0","1","T","0","0",":","0","0",":","0","0","Z">>}

\* -------------------------------------------------------------------- state

VARIABLES
    pc,           \* where the run is: fetch, prune, resolve, namespaces, paths, done, exited
    exit_status,  \* the exit status of the process, once pc is done or exited
    scope_it,     \* index in SPECS of the scope being generated
    spec,         \* the fetched document of the scope
    SCHEMA_OUT,   \* the manifest being built (module global)
    namespaces,   \* the pruned tags
    references,   \* the reference table
    CURATED,      \* the module-level curated parameter dicts
    it,           \* line 442 / 450: the loop counter (next namespace, then next path)
    method_it,    \* generate_endpoints: index in HTTP_METHODS of the next method
    files,        \* the files written: name -> the chunks written, in order
    call          \* the last get_endpoint_params call: its arguments and result

vars == <<pc, exit_status, scope_it, spec, SCHEMA_OUT, namespaces, references,
          CURATED, it, method_it, files, call>>

None == <<>>

Init ==
    /\ pc = "fetch"
    /\ exit_status = 0
    /\ scope_it = 1
    /\ spec = None
    /\ SCHEMA_OUT = None
    /\ namespaces = None
    /\ references = None
    /\ CURATED = CuratedInit
    /\ it = 1
    /\ method_it = 1
    /\ files = None
    /\ call = None

\* exit(n), or an exception nothing catches (Python then exits with status 1)
Exit(raise) ==
    /\ pc' = "exited"
    /\ exit_status' = CASE raise = "exit(10)" -> 10
                        [] raise = "exit(11)" -> 11
                        [] OTHER -> 1

scope == SPECS[scope_it].key

\* lines 104-113 and 418-429: the fetch of the scope's document; the manifest
\* is initialised
Fetch ==
    /\ pc = "fetch"
    /\ \E status_ok \in BOOLEAN, document \in Documents, now \in Clock :
          IF status_ok
          THEN /\ spec' = document
               /\ SCHEMA_OUT' = [scope |-> scope,
                                 version_spec |-> document.info.version,
                                 version_codegen |-> VERSION,
                                 checksum |-> checksum(document),
                                 generated_on |-> to_rfc339(now),
                                 base_url |-> SPECS[scope_it].value.base_url,
                                 endpoints |-> <<>>]
               /\ pc' = "prune"
               /\ UNCHANGED exit_status
          ELSE /\ Exit("exit(10)")
               /\ UNCHANGED <<spec, SCHEMA_OUT>>
    /\ UNCHANGED <<scope_it, namespaces, references, CURATED, it, method_it, files, call>>

\* line 434
Prune ==
    /\ pc = "prune"
    /\ \E r \in {prune_empty_namespaces(spec)} :
          IF r.raise = ""
          THEN /\ namespaces' = r.namespaces
               /\ pc' = "resolve"
               /\ UNCHANGED exit_status
          ELSE /\ Exit(r.raise)
               /\ UNCHANGED namespaces
    /\ UNCHANGED <<scope_it, spec, SCHEMA_OUT, references, CURATED, it, method_it, files, call>>

\* lines 438-442: the table is built; the components of the document are the
\* table's entries
Resolve ==
    /\ pc = "resolve"
    /\ references' = resolve_references(spec)
    /\ spec' = [spec EXCEPT !.components = aliased_components(@, references')]
    /\ it' = 1
    /\ pc' = "namespaces"
    /\ UNCHANGED <<exit_status, scope_it, SCHEMA_OUT, namespaces, CURATED, method_it, files, call>>

\* lines 443-446: one iteration of the namespace loop
GenerateNamespace ==
    /\ pc = "namespaces"
    /\ it <= Len(namespaces)
    /\ files' = generate_namespace(namespaces[it], scope, spec.info.version,
                                   SPECS[scope_it].value.base_url, files)
    /\ it' = it + 1
    /\ UNCHANGED <<pc, exit_status, scope_it, spec, SCHEMA_OUT, namespaces, references,
                   CURATED, method_it, call>>

\* lines 448-450: the namespace loop is over, the path loop starts
StartPaths ==
    /\ pc = "namespaces"
    /\ it > Len(namespaces)
    /\ it' = 1
    /\ method_it' = 1
    /\ pc' = "paths"
    /\ UNCHANGED <<exit_status, scope_it, spec, SCHEMA_OUT, namespaces, references,
                   CURATED, files, call>>

\* generate_endpoints, line 155-156: the next method of the path that it declares
next_method(endpoints, from) ==
    IF \E j \in from..Len(HTTP_METHODS) : HTTP_METHODS[j] \in DOMAIN endpoints
    THEN CHOOSE j \in from..Len(HTTP_METHODS) :
            /\ HTTP_METHODS[j] \in DOMAIN endpoints
            /\ \A k \in from..(j - 1) : HTTP_METHODS[k] \notin DOMAIN endpoints
    ELSE 0

\* line 154: the parameters of the path item
path_parameters(endpoints) ==
    IF "parameters" \in DOMAIN endpoints THEN endpoints.parameters ELSE <<>>

\* The path item after a call wrote to the parameter objects of the merged list
written_path_item(endpoints, method, parameters) ==
    LET n == IF "parameters" \in DOMAIN endpoints THEN Len(endpoints.parameters) ELSE 0
        e1 == IF n > 0
              THEN [endpoints EXCEPT !.parameters = SubSeq(parameters, 1, n)]
              ELSE endpoints
    IN IF "parameters" \in DOMAIN endpoints[method]
       THEN [e1 EXCEPT ![method].parameters = SubSeq(parameters, n + 1, Len(parameters))]
       ELSE e1

\* lines 150-162 and 180-246: one iteration of the method loop of
\* generate_endpoints that finds the method declared: generate_endpoint, then
\* the append to the file of the operation's first tag
GenerateEndpoint ==
    /\ pc = "paths"
    /\ it <= Len(spec.paths)
    /\ next_method(spec.paths[it].value, method_it) # 0
    /\ \E path \in {spec.paths[it].key}, endpoints \in {spec.paths[it].value} :
       \E j \in {next_method(endpoints, method_it)} :
       \E method \in {HTTP_METHODS[j]} :
       \E parameters \in {merged_parameters(endpoints[method], path_parameters(endpoints))} :
       \E ret \in {get_endpoint_params(path, endpoints[method], parameters,
                                       references, CURATED)} :
          /\ call' = [path |-> path, method |-> method, endpoint |-> endpoints[method],
                      parameters |-> parameters, raise |-> ret.raise, skel |-> ret.skel]
          /\ references' = ret.references
          /\ CURATED' = ret.CURATED
          /\ spec' = [spec EXCEPT
                        !.paths[it].value = written_path_item(@, method, ret.parameters),
                        !.components = aliased_components(@, ret.references)]
          /\ IF ret.raise = ""
             THEN \E emitted \in {emit_endpoint(path, method, endpoints[method], ret.skel)} :
                  /\ SCHEMA_OUT' = [SCHEMA_OUT EXCEPT !.endpoints = Append(@, emitted.entry)]
                  /\ files' = append_endpoint(files, endpoints[method], emitted.out)
                  /\ method_it' = j + 1
                  /\ UNCHANGED <<pc, exit_status>>
             ELSE /\ Exit(ret.raise)
                  /\ UNCHANGED <<SCHEMA_OUT, files, method_it>>
    /\ UNCHANGED <<scope_it, namespaces, it>>

\* lines 451-456: generate_endpoints returns, the path loop moves on
NextPath ==
    /\ pc = "paths"
    /\ it <= Len(spec.paths)
    /\ next_method(spec.paths[it].value, method_it) = 0
    /\ it' = it + 1
    /\ method_it' = 1
    /\ UNCHANGED <<pc, exit_status, scope_it, spec, SCHEMA_OUT, namespaces, references,
                   CURATED, files, call>>

\* lines 458-462, then line 416 or 464: the manifest of the scope is written
\* and the scope loop moves on
DumpSchema ==
    /\ pc = "paths"
    /\ it > Len(spec.paths)
    /\ files' = Put(files, WS_DIR \o S_slash \o scope \o S_dot_json, <<SCHEMA_OUT>>)
    /\ scope_it' = scope_it + 1
    /\ pc' = IF scope_it < Len(SPECS) THEN "fetch" ELSE "done"
    /\ UNCHANGED <<exit_status, spec, SCHEMA_OUT, namespaces, references, CURATED,
                   it, method_it, call>>

Next ==
    \/ Fetch
    \/ Prune
    \/ Resolve
    \/ GenerateNamespace
    \/ StartPaths
    \/ GenerateEndpoint
    \/ NextPath
    \/ DumpSchema

Spec == Init /\ [][Next]_vars

\* ------------------------------------------------- get_endpoint_params alone
\* The curator applied once to an operation drawn from CuratorEndpoints and a
\* merged parameter list drawn from ParamLists, on the table resolve_references
\* builds from Components.

CuratorPath == <<"/","o","p">>

InitCurator ==
    /\ pc = "curate"
    /\ exit_status = 0
    /\ scope_it = 1
    /\ spec = [info |-> [version |-> <<"1",".","0">>], tags |-> <<TagUsers>>, paths |-> <<>>,
               components |-> Components]
    /\ SCHEMA_OUT = None
    /\ namespaces = None
    /\ references = resolve_references(spec)
    /\ CURATED = CuratedInit
    /\ it = 1
    /\ method_it = 1
    /\ files = None
    /\ call = None

Curate ==
    /\ pc = "curate"
    /\ \E endpoint \in CuratorEndpoints, parameters \in ParamLists :
          \E ret \in {get_endpoint_params(CuratorPath, endpoint, parameters,
                                         references, CURATED)} :
             /\ call' = [path |-> CuratorPath, endpoint |-> endpoint,
                         parameters |-> parameters, raise |-> ret.raise,
                         skel |-> ret.skel]
             /\ references' = ret.references
             /\ CURATED' = ret.CURATED
             /\ IF ret.raise = ""
                THEN pc' = "returned" /\ UNCHANGED exit_status
                ELSE Exit(ret.raise)
    /\ UNCHANGED <<scope_it, spec, SCHEMA_OUT, namespaces, it, method_it, files>>

NextCurator == Curate

SpecCurator == InitCurator /\ [][NextCurator]_vars

\* ------------------------------------------------------------------ claims

\* get_endpoint_params was called and returned a skeleton
Returned == DOMAIN call # {} /\ call.raise = ""
final_list == call.skel.list

NamedLike(list, name) == {i \in DOMAIN list : lower(list[i].name) = name}

\* The content types an operation declares on its success responses (numeric
\* codes 200 to 299 with content), in document order
RECURSIVE DeclaredSuccessTypes(_, _)
DeclaredSuccessTypes(responses, i) ==
    IF i > Len(responses) THEN <<>>
    ELSE (IF "content" \in DOMAIN responses[i].value
             /\ int(responses[i].key) >= 200 /\ int(responses[i].key) <= 299
          THEN responses[i].value.content ELSE <<>>)
         \o DeclaredSuccessTypes(responses, i + 1)
SuccessTypes(endpoint) ==
    IF "responses" \in DOMAIN endpoint
    THEN DeclaredSuccessTypes(endpoint.responses, 1) ELSE <<>>

\* C1: in the list get_endpoint_params returns, every required parameter comes
\* before every optional one, and no two parameters have the same lower-cased
\* name (whatever has_optional_params is).
C1_RequiredFirstUniqueNames ==
    Returned =>
        /\ \A i, j \in DOMAIN final_list :
              (i < j /\ final_list[j].required) => final_list[i].required
        /\ \A i, j \in DOMAIN final_list :
              lower(final_list[i].name) = lower(final_list[j].name) => i = j

\* An optional parameter was declared before a required one and a duplicate
\* name was dropped: the returned list has both kinds
C1_Witness ==
    /\ Returned
    /\ Len(call.parameters) >= 2
    /\ "required" \notin DOMAIN call.parameters[1]
    /\ "name" \in DOMAIN call.parameters[1]
    /\ \E i \in DOMAIN final_list : final_list[i].required
    /\ \E i \in DOMAIN final_list : ~final_list[i].required
    /\ "requestBody" \in DOMAIN call.endpoint
    /\ Len(final_list) = Len(call.parameters)

\* C2: for an operation with a request body, the returned list has exactly one
\* parameter named payload (in any letter case), and it is required.
C2_OneRequiredPayload ==
    (Returned /\ "requestBody" \in DOMAIN call.endpoint) =>
        /\ Cardinality(NamedLike(final_list, S_payload)) = 1
        /\ \A i \in NamedLike(final_list, S_payload) : final_list[i].required

\* C3: when the success responses declare two or more distinct content types,
\* the returned list has an optional parameter response_content_type whose
\* default is the first declared content type, lower-cased and stripped.
C3_ContentTypeParam ==
    (Returned /\ Cardinality(Range(SuccessTypes(call.endpoint))) >= 2) =>
        \E i \in DOMAIN final_list :
            /\ final_list[i].name = S_response_content_type
            /\ ~final_list[i].required
            /\ final_list[i].type =
                  S_str_eq_quote \o strip(lower(SuccessTypes(call.endpoint)[1])) \o S_quote

\* C5: a reference to DBBranchNameParam in the merged list gives exactly one
\* db_name and one branch_name in the returned list, both optional, and
\* smart_db_branch_name true; without such a reference the flag is false.
HasDbBranchRef ==
    \E i \in DOMAIN call.parameters : IsRefTo(call.parameters[i], REF_DB_BRANCH_NAME_PARAM)
C5_DbBranchSwap ==
    Returned =>
        /\ HasDbBranchRef =>
              /\ Cardinality(NamedLike(final_list, S_db_name)) = 1
              /\ Cardinality(NamedLike(final_list, S_branch_name)) = 1
              /\ \A i \in NamedLike(final_list, S_db_name) \cup
                          NamedLike(final_list, S_branch_name) : ~final_list[i].required
              /\ call.skel.smart_db_branch_name
        /\ ~HasDbBranchRef => ~call.skel.smart_db_branch_name

\* C9: the flags describe the returned list: has_path_params and
\* has_query_params are non-zero exactly when the list has a path (a query)
\* parameter, has_optional_params is truthy exactly when it has an optional
\* parameter, has_payload is true exactly when the operation has a request body.
C9_FlagsDescribeList ==
    Returned =>
        /\ (call.skel.has_path_params # 0) <=>
              (\E i \in DOMAIN final_list : final_list[i]["in"] = S_path)
        /\ (call.skel.has_query_params # 0) <=>
              (\E i \in DOMAIN final_list : final_list[i]["in"] = S_query)
        /\ truthy(call.skel.has_optional_params) <=>
              (\E i \in DOMAIN final_list : ~final_list[i].required)
        /\ call.skel.has_payload <=> ("requestBody" \in DOMAIN call.endpoint)

\* C10: when the success responses declare at most one distinct content type,
\* no synthetic response_content_type parameter is appended and
\* has_optional_params is not set to True by the content-type step.
C10_SingleContentType ==
    (Returned /\ Cardinality(Range(SuccessTypes(call.endpoint))) <= 1) =>
        /\ \A i \in DOMAIN final_list : final_list[i]["in"] # S_responseBody
        /\ ~call.skel.has_optional_params.bool

\* The operations bound to a tag: an operation belongs to its first tag, the
\* one whose file generate_endpoints appends it to
BoundOperations(document, name) ==
    {op \in (DOMAIN document.paths) \X {"get", "put", "post", "delete", "patch"} :
        /\ op[2] \in DOMAIN document.paths[op[1]].value
        /\ document.paths[op[1]].value[op[2]].tags[1] = name}

\* C4: prune_empty_namespaces returns exactly the tags of spec["tags"] with at
\* least one bound operation over every path and the five methods, in the
\* order of spec["tags"], and leaves the document unchanged.
C4_PruneKeepsBoundTags ==
    [][(pc = "prune" /\ pc' = "resolve") =>
          /\ namespaces' = SelectSeq(spec.tags,
                              LAMBDA n : BoundOperations(spec, n.name) # {})
          /\ spec' = spec]_vars

\* The pruner dropped a tag and kept two others
C4_Witness ==
    /\ pc = "resolve"
    /\ Len(namespaces) = 2
    /\ Len(spec.tags) = 3
    /\ \E i \in DOMAIN spec.tags : BoundOperations(spec, spec.tags[i].name) = {}

\* A parameter that is a $ref, not one of the two convenience references, whose
\* path the table does not have
UnknownRef(r) ==
    /\ "$ref" \in DOMAIN r
    /\ "name" \notin DOMAIN r
    /\ r["$ref"] \notin {REF_DB_BRANCH_NAME_PARAM, REF_WORKSPACE_ID_PARAM}
    /\ r["$ref"] \notin DOMAIN references

\* A schema that names a type, directly or through a $ref the table has
SchemaGivesType(p) ==
    /\ "schema" \in DOMAIN p
    /\ IF "$ref" \in DOMAIN p.schema
       THEN /\ p.schema["$ref"] \in DOMAIN references
            /\ "type" \in DOMAIN references[p.schema["$ref"]]
       ELSE "type" \in DOMAIN p.schema

\* A parameter the loop gets past
ResolvesCleanly(r) ==
    \/ IsRefTo(r, REF_DB_BRANCH_NAME_PARAM)
    \/ IsRefTo(r, REF_WORKSPACE_ID_PARAM)
    \/ /\ "$ref" \in DOMAIN r
       /\ r["$ref"] \in DOMAIN references
       /\ SchemaGivesType(references[r["$ref"]])
       /\ {"name", "in"} \subseteq DOMAIN references[r["$ref"]]
    \/ /\ "$ref" \notin DOMAIN r
       /\ {"name", "in", "schema"} \subseteq DOMAIN r
       /\ "type" \in DOMAIN r.schema

\* The resolution loop of the last call came to a parameter that is an unknown
\* reference
ReachedUnknownRef ==
    /\ DOMAIN call # {}
    /\ \E k \in DOMAIN call.parameters :
          /\ UnknownRef(call.parameters[k])
          /\ \A i \in 1..(k - 1) : ResolvesCleanly(call.parameters[i])

namespace_file(name) == WS_DIR \o S_slash \o _sanitize_filename(name) \o S_dot_py
manifest_file == WS_DIR \o S_slash \o scope \o S_dot_json

\* C6: when the resolution of an operation's parameters comes to a $ref that
\* the table does not have, the run ends there with exit status 11: no step
\* follows, the manifest has no entry for the operation, the namespace files
\* hold no fragment besides those of the manifest's entries, and the manifest
\* file of the scope is not written.
C6_UnknownRefExits ==
    ReachedUnknownRef =>
        /\ pc = "exited"
        /\ exit_status = 11
        /\ ~ENABLED Next
        /\ \A i \in DOMAIN SCHEMA_OUT.endpoints :
              ~(/\ SCHEMA_OUT.endpoints[i].url_path = call.path
                /\ SCHEMA_OUT.endpoints[i].method = upper(chars(call.method)))
        /\ \A n \in DOMAIN namespaces :
              Len(files[namespace_file(namespaces[n].name)]) =
                 1 + Cardinality({i \in DOMAIN SCHEMA_OUT.endpoints :
                        SCHEMA_OUT.endpoints[i].namespace = namespaces[n].name})
        /\ manifest_file \notin DOMAIN files

\* The run ended at an unknown reference after it had emitted an operation and
\* with an operation of the same path still to come
C6_Witness ==
    /\ ReachedUnknownRef
    /\ pc = "exited"
    /\ exit_status = 11
    /\ Len(SCHEMA_OUT.endpoints) > 0
    /\ call.method = "put"
    /\ "patch" \in DOMAIN spec.paths[it].value

\* C7: once resolve_references has returned the table, no step of the path
\* loop changes it.
C7_TableNeverMutated ==
    [][pc = "paths" => references' = references]_vars

\* A plain reference of the merged list, and the references it leads to, are in
\* the table
ParameterRefsResolve(parameters) ==
    \A i \in DOMAIN parameters :
        ("$ref" \in DOMAIN parameters[i] /\ "name" \notin DOMAIN parameters[i]
         /\ ~IsRefTo(parameters[i], REF_DB_BRANCH_NAME_PARAM)
         /\ ~IsRefTo(parameters[i], REF_WORKSPACE_ID_PARAM)) =>
            /\ parameters[i]["$ref"] \in DOMAIN references
            /\ "$ref" \in DOMAIN references[parameters[i]["$ref"]].schema =>
                  references[parameters[i]["$ref"]].schema["$ref"] \in DOMAIN references

\* The responses of the operation whose description is to come from a $ref
\* that the table does not have
UnresolvedResponses(endpoint) ==
    IF "responses" \notin DOMAIN endpoint THEN {}
    ELSE {i \in DOMAIN endpoint.responses :
            /\ "description" \notin DOMAIN endpoint.responses[i].value
            /\ "$ref" \in DOMAIN endpoint.responses[i].value
            /\ endpoint.responses[i].value["$ref"] \notin DOMAIN references}

\* C8 as stated: get_endpoint_params returns only when every reference of the
\* operation is in the table: parameter $ref, nested schema $ref and response
\* $ref.
C8_EveryRefResolvesOrAborts ==
    Returned =>
        /\ ParameterRefsResolve(call.parameters)
        /\ UnresolvedResponses(call.endpoint) = {}

\* C8: get_endpoint_params returns only when every parameter $ref and every
\* nested schema $ref is in the table; a response $ref that the table does
\* not have does not end the run, and that response's description is empty.
C8_ParameterRefsResolveOrAbort ==
    Returned =>
        /\ ParameterRefsResolve(call.parameters)
        /\ \A i \in UnresolvedResponses(call.endpoint) :
              call.skel.response_codes[i].description = <<>>

\* The call returned for an operation with a referenced parameter whose schema
\* is a reference and with a response whose $ref the table does not have
C8_Witness ==
    /\ Returned
    /\ UnresolvedResponses(call.endpoint) # {}
    /\ \E i \in DOMAIN call.parameters :
          /\ "$ref" \in DOMAIN call.parameters[i]
          /\ call.parameters[i]["$ref"] \in DOMAIN references
          /\ "$ref" \in DOMAIN references[call.parameters[i]["$ref"]].schema

\* The operations of a document in emission order: the paths in document
\* order and, within a path, the methods it declares in the order get, put,
\* post, delete, patch
RECURSIVE OperationsFrom(_, _)
OperationsFrom(paths, i) ==
    IF i > Len(paths) THEN <<>>
    ELSE LET declared == SelectSeq(<<"get", "put", "post", "delete", "patch">>,
                                   LAMBDA m : m \in DOMAIN paths[i].value)
         IN [k \in DOMAIN declared |->
                [path |-> paths[i].key, method |-> declared[k],
                 tag |-> paths[i].value[declared[k]].tags[1]]]
            \o OperationsFrom(paths, i + 1)

\* The scope's run is complete: its manifest was just written, and the
\* document, the manifest and the namespaces are still those of that scope
ScopeCompleted == pc \in {"fetch", "done"} /\ scope_it > 1
completed_manifest_file ==
    WS_DIR \o S_slash \o SPECS[scope_it - 1].key \o S_dot_json

\* A file that starts with the class declaration of a namespace
StartsWithClass(f) ==
    /\ f \in DOMAIN files
    /\ Len(files[f]) >= 1
    /\ files[f][1].template = <<"n","a","m","e","s","p","a","c","e">>

\* C11: in a complete run of a scope every operation of the document is
\* emitted exactly once: the manifest's entries are the operations in emission
\* order (method upper-cased, url_path the path) and nothing else, the file of
\* each namespace is its class declaration followed by the fragments of the
\* operations whose first tag it is, and no endpoint is emitted before the
\* namespace files are all written.
C11_EveryOperationEmittedOnce ==
    /\ pc = "namespaces" => SCHEMA_OUT.endpoints = <<>>
    /\ pc = "paths" =>
          \A n \in DOMAIN namespaces : StartsWithClass(namespace_file(namespaces[n].name))
    /\ ScopeCompleted =>
          \E ops \in {OperationsFrom(spec.paths, 1)} :
             /\ Len(SCHEMA_OUT.endpoints) = Len(ops)
             /\ \A k \in DOMAIN ops :
                   /\ SCHEMA_OUT.endpoints[k].url_path = ops[k].path
                   /\ SCHEMA_OUT.endpoints[k].method = upper(chars(ops[k].method))
                   /\ SCHEMA_OUT.endpoints[k].namespace = ops[k].tag
                   /\ namespace_file(ops[k].tag) \in DOMAIN files
             /\ \A n \in DOMAIN namespaces :
                   \E f \in {namespace_file(namespaces[n].name)},
                      mine \in {SelectSeq(ops, LAMBDA o : o.tag = namespaces[n].name)} :
                      /\ StartsWithClass(f)
                      /\ Len(files[f]) = 1 + Len(mine)
                      /\ \A j \in DOMAIN mine :
                            /\ files[f][j + 1].vars.path = mine[j].path
                            /\ files[f][j + 1].vars.http_method = upper(chars(mine[j].method))
             /\ files[completed_manifest_file] = <<SCHEMA_OUT>>

\* The second scope completed with three operations of two paths in two
\* namespaces, after a first scope that emitted operations too
C11_Witness ==
    /\ pc = "done"
    /\ Len(SCHEMA_OUT.endpoints) = 3
    /\ Len(spec.paths) = 2
    /\ \E i, j \in DOMAIN SCHEMA_OUT.endpoints :
          SCHEMA_OUT.endpoints[i].namespace # SCHEMA_OUT.endpoints[j].namespace
    /\ \E f \in DOMAIN files :
          /\ f # completed_manifest_file
          /\ "endpoints" \in DOMAIN files[f][1]
          /\ Len(files[f][1].endpoints) > 0
====
